---- MODULE Spec2Model ----
(***************************************************************************)
(* AgriSense client: the crop advisory workflow (CropForm.jsx), the        *)
(* results view (Results.jsx), the home view (Home.jsx) and the history    *)
(* store they share in localStorage, as a state machine.                   *)
(*                                                                         *)
(* Conventions                                                             *)
(*  - a JavaScript value that may be null/undefined is a sequence of        *)
(*    length 0 (Null) or 1 (Some(v));                                      *)
(*  - free text (the location input) is a sequence of one-character        *)
(*    strings, so that String.prototype.trim is computed, not assumed;     *)
(*  - numeric input text is a sequence of digit characters, parsed by      *)
(*    Number;                                                              *)
(*  - a handler runs atomically up to its first await; the continuation    *)
(*    after the await is a separate action that uses the values the        *)
(*    handler's closure captured when it was invoked.                      *)
(***************************************************************************)
EXTENDS Integers, Sequences, FiniteSets, TLC

---------------------------------------------------------------------------
(* Bounds of the model *)

\* preview and confirm actions triggered in one behaviour of Spec
MaxActions == 3
\* history appends by the results view in one behaviour of Spec
MaxResultsAppends == 3
\* appends in one behaviour of SpecHistory (more than the capacity)
MaxAppends == 22
\* appends by the disease workflow among them
MaxDiseaseAppends == 2
\* speech, GPS and map requests in one behaviour of SpecLocation
MaxLocRequests == 2
\* detect-disease requests in one behaviour of SpecDisease
MaxDetects == 2

---------------------------------------------------------------------------
(* Values *)

Null == <<>>
Some(x) == <<x>>
Val(o) == o[1]

Reverse(s) == [i \in 1..Len(s) |-> s[Len(s) + 1 - i]]

\* s.slice(0, n)
Slice0(s, n) == SubSeq(s, 1, IF Len(s) < n THEN Len(s) ELSE n)

IsSpace(c) == c = " "

RECURSIVE TrimStart(_)
TrimStart(s) ==
  IF s # <<>> /\ IsSpace(Head(s)) THEN TrimStart(Tail(s)) ELSE s

RECURSIVE TrimEnd(_)
TrimEnd(s) ==
  IF s # <<>> /\ IsSpace(s[Len(s)]) THEN TrimEnd(SubSeq(s, 1, Len(s) - 1)) ELSE s

\* String.prototype.trim
Trim(s) == TrimEnd(TrimStart(s))

DigitVal(c) ==
  CASE c = "0" -> 0 [] c = "1" -> 1 [] c = "2" -> 2 [] c = "3" -> 3
    [] c = "4" -> 4 [] c = "5" -> 5 [] c = "6" -> 6 [] c = "7" -> 7
    [] c = "8" -> 8 [] c = "9" -> 9

RECURSIVE Number(_)
\* Number(text) on the decimal digit strings a type="number" input holds
Number(s) ==
  IF s = <<>> THEN 0 ELSE 10 * Number(SubSeq(s, 1, Len(s) - 1)) + DigitVal(s[Len(s)])

---------------------------------------------------------------------------
(* CropForm.jsx: the payload normalizer *)

INITIAL_FORM ==
  [ location |-> <<>>, previous_crop |-> "", land_size |-> <<>>,
    irrigation_type |-> "", goal |-> "", temperature |-> "",
    humidity |-> "", rainfall |-> "",
    N |-> <<>>, P |-> <<>>, K |-> <<>>, ph |-> <<>> ]

mapTemperatureCategory(value) ==
  IF value = "Cool" THEN Some(18)
  ELSE IF value = "Moderate" THEN Some(25)
  ELSE IF value = "Hot" THEN Some(32)
  ELSE Null

\* a humidity table with another midpoint
mapHumidityCategory_wrongMedium(value) ==
  IF value = "Low" THEN Some(30)
  ELSE IF value = "Medium" THEN Some(50)
  ELSE IF value = "High" THEN Some(80)
  ELSE Null

mapHumidityCategory(value) ==
  IF value = "Low" THEN Some(30)
  ELSE IF value = "Medium" THEN Some(55)
  ELSE IF value = "High" THEN Some(80)
  ELSE Null

mapRainfallCategory(value) ==
  IF value = "Low" THEN Some(400)
  ELSE IF value = "Medium" THEN Some(750)
  ELSE IF value = "High" THEN Some(1200)
  ELSE Null

\* x || null on a string
OrNull(s) == IF s = "" THEN Null ELSE Some(s)

\* a normalizer whose default for an empty pH is 0
buildPayload_phZero(form) ==
  [ location |-> Trim(form.location),
    previous_crop |-> OrNull(form.previous_crop),
    land_size |-> IF form.land_size # <<>> THEN Some(Number(form.land_size)) ELSE Null,
    irrigation_type |-> OrNull(form.irrigation_type),
    goal |-> OrNull(form.goal),
    temperature |-> mapTemperatureCategory(form.temperature),
    humidity |-> mapHumidityCategory(form.humidity),
    rainfall |-> mapRainfallCategory(form.rainfall),
    manual_soil |->
      IF form.N # <<>> \/ form.P # <<>> \/ form.K # <<>> \/ form.ph # <<>>
      THEN Some([ N |-> IF form.N # <<>> THEN Number(form.N) ELSE 0,
                  P |-> IF form.P # <<>> THEN Number(form.P) ELSE 0,
                  K |-> IF form.K # <<>> THEN Number(form.K) ELSE 0,
                  ph |-> IF form.ph # <<>> THEN Number(form.ph) ELSE 0 ])
      ELSE Null ]

buildPayload(form) ==
  [ location |-> Trim(form.location),
    previous_crop |-> OrNull(form.previous_crop),
    land_size |-> IF form.land_size # <<>> THEN Some(Number(form.land_size)) ELSE Null,
    irrigation_type |-> OrNull(form.irrigation_type),
    goal |-> OrNull(form.goal),
    temperature |-> mapTemperatureCategory(form.temperature),
    humidity |-> mapHumidityCategory(form.humidity),
    rainfall |-> mapRainfallCategory(form.rainfall),
    manual_soil |->
      IF form.N # <<>> \/ form.P # <<>> \/ form.K # <<>> \/ form.ph # <<>>
      THEN Some([ N |-> IF form.N # <<>> THEN Number(form.N) ELSE 0,
                  P |-> IF form.P # <<>> THEN Number(form.P) ELSE 0,
                  K |-> IF form.K # <<>> THEN Number(form.K) ELSE 0,
                  ph |-> IF form.ph # <<>> THEN Number(form.ph) ELSE 7 ])
      ELSE Null ]

---------------------------------------------------------------------------
(* CropForm.jsx: the location resolver, its pure parts *)

\* Coordinates are degrees in hundred-thousandths (1852043 is 18.52043), with
\* a fifth decimal other than 5, so that rounding to four decimals does not
\* depend on the binary representation of the number.
Coords(lat, lng) == [lat |-> lat, lng |-> lng]

DigitChar(d) == <<"0", "1", "2", "3", "4", "5", "6", "7", "8", "9">>[d + 1]

RECURSIVE Digits(_)
\* the decimal digits of a natural number
Digits(n) ==
  IF n < 10 THEN <<DigitChar(n)>> ELSE Digits(n \div 10) \o <<DigitChar(n % 10)>>

\* Number.prototype.toFixed(4): the sign of a negative number, the magnitude
\* rounded to four decimals, the fraction padded to four digits
ToFixed4(x) ==
  LET a == IF x < 0 THEN -x ELSE x
      n == (a + 5) \div 10
      frac == n % 10000
  IN (IF x < 0 THEN <<"-">> ELSE <<>>)
     \o Digits(n \div 10000) \o <<".">>
     \o << DigitChar(frac \div 1000), DigitChar((frac \div 100) % 10),
           DigitChar((frac \div 10) % 10), DigitChar(frac % 10) >>

\* `GPS: ${latitude.toFixed(4)}, ${longitude.toFixed(4)}`
GpsName(latitude, longitude) ==
  <<"G", "P", "S", ":", " ">> \o ToFixed4(latitude) \o <<",", " ">> \o ToFixed4(longitude)

\* The outcomes of GET /reverse-geocode: kind is "ok" (2xx), "http_error" or
\* "network_error"; the body of a 2xx response is a JSON object (location:
\* Null when the field is missing), JSON null, or text that is not JSON.
GeoResponse(kind, body, location) == [kind |-> kind, body |-> body, location |-> location]

GeoResponses ==
  { GeoResponse("ok", "object", Some(<<"P", "u", "n", "e">>)),
    GeoResponse("ok", "object", Some(<<>>)),
    GeoResponse("ok", "object", Null),
    GeoResponse("ok", "null", Null),
    GeoResponse("ok", "unparsable", Null),
    GeoResponse("http_error", "object", Null),
    GeoResponse("network_error", "object", Null) }

\* a resolver that returns whatever the server sent
resolveLocation_noFallback(latitude, longitude, res) ==
  IF res.kind = "ok" /\ res.body = "object" /\ res.location # Null
  THEN Val(res.location)
  ELSE GpsName(latitude, longitude)

\* resolveLocation(latitude, longitude) given the outcome of its fetch: a
\* rejected fetch, a rejected res.json() and the TypeError of reading
\* data.location on null all end in the catch block
resolveLocation(latitude, longitude, res) ==
  IF res.kind = "network_error" THEN GpsName(latitude, longitude)
  ELSE IF res.kind = "ok"
  THEN IF res.body # "object" THEN GpsName(latitude, longitude)
       ELSE IF res.location # Null /\ Val(res.location) # <<>> THEN Val(res.location)
       ELSE GpsName(latitude, longitude)
  ELSE GpsName(latitude, longitude)

\* localStorage["agrisense_last_location"] is Null when absent, otherwise
\* Some of the stored text by what JSON.parse makes of it: kind "empty" (the
\* empty string), "unparsable", "null", "string", or "object" with its name
\* (<<>> when missing or empty) and coords (Null when missing)
CacheText(kind, name, coords) == [kind |-> kind, name |-> name, coords |-> coords]

\* saveLocationCache(name, coords): JSON.stringify({ name, coords })
saveLocationCache(name, coords) == Some(CacheText("object", name, Some(coords)))

\* lines 74-78: cachedLoc.current after the read, Null or the parsed object
ParseCache(stored) ==
  IF stored = Null THEN Null
  ELSE LET raw == Val(stored) IN
       IF raw.kind \in {"empty", "unparsable", "null"} THEN Null
       ELSE IF raw.kind = "string" THEN Some([name |-> <<>>, coords |-> Null])
       ELSE Some([name |-> raw.name, coords |-> raw.coords])

\* a form that ignores the cached coordinates
InitialMapCoords_none(cache) == Null

\* line 93: cachedLoc.current?.coords || null
InitialMapCoords(cache) == IF cache # Null THEN Val(cache).coords ELSE Null

---------------------------------------------------------------------------
(* localStorage["agrisense_history"] *)

\* The raw stored value, by what JSON.parse makes of it:
\*   absent      getItem returns null
\*   empty       the empty string
\*   unparsable  text that is not JSON (JSON.parse throws)
\*   null, number, object, string   JSON of that type (chars: the string)
\*   array       a JSON array of history entries (items)
Stored(kind, items, chars) == [kind |-> kind, items |-> items, chars |-> chars]
StoreAbsent == Stored("absent", <<>>, <<>>)
StoreArray(items) == Stored("array", items, <<>>)

\* JSON.parse(localStorage.getItem("agrisense_history") || "[]"):
\* threw is TRUE when JSON.parse throws
ParseHistory(raw) ==
  IF raw.kind \in {"absent", "empty"} THEN [threw |-> FALSE, value |-> StoreArray(<<>>)]
  ELSE IF raw.kind = "unparsable" THEN [threw |-> TRUE, value |-> raw]
  ELSE [threw |-> FALSE, value |-> raw]

\* history.unshift exists on arrays only; on any other parsed value the call
\* throws a TypeError
HasUnshift(v) == v.kind = "array"

\* h.slice exists on arrays and on strings
HasSlice(v) == v.kind \in {"array", "string"}

\* the stored value is one an append can extend
Writable(raw) == ~ParseHistory(raw).threw /\ HasUnshift(ParseHistory(raw).value)

HistoryEntry(type, summary, date) == [type |-> type, summary |-> summary, date |-> date]

\* an append that forgets to truncate
saveToHistory_noSlice(raw, type, summary, now) ==
  LET p == ParseHistory(raw) IN
  IF p.threw \/ ~HasUnshift(p.value) THEN raw
  ELSE StoreArray(<<HistoryEntry(type, summary, now)>> \o p.value.items)

\* Results.jsx saveToHistory(type, summary) at time now: the new stored value.
\* Every exception is swallowed by the catch and leaves the store as it was.
saveToHistory(raw, type, summary, now) ==
  LET p == ParseHistory(raw) IN
  IF p.threw \/ ~HasUnshift(p.value) THEN raw
  ELSE LET history == <<HistoryEntry(type, summary, now)>> \o p.value.items
       IN StoreArray(Slice0(history, 20))

\* an append that keeps the last 20 of the list, history.slice(-20)
detectSaveHistory_sliceEnd(raw, summary, now) ==
  LET p == ParseHistory(raw) IN
  IF p.threw \/ ~HasUnshift(p.value) THEN raw
  ELSE LET history == <<HistoryEntry("disease", summary, now)>> \o p.value.items
           n == Len(history)
       IN StoreArray(SubSeq(history, IF n > 20 THEN n - 19 ELSE 1, n))

\* an append that writes the new entry over whatever is stored
detectSaveHistory_overwrite(raw, summary, now) ==
  LET p == ParseHistory(raw) IN
  IF p.threw \/ ~HasUnshift(p.value) THEN raw
  ELSE StoreArray(<<HistoryEntry("disease", summary, now)>>)

\* DiseaseDetection handleDetect, "Save to analysis history": its own copy of
\* the read-unshift-slice-write sequence
detectSaveHistory(raw, summary, now) ==
  LET p == ParseHistory(raw) IN
  IF p.threw \/ ~HasUnshift(p.value) THEN raw
  ELSE LET history == <<HistoryEntry("disease", summary, now)>> \o p.value.items
       IN StoreArray(Slice0(history, 20))

\* Home.jsx mount effect: the value given to setHistory, or the initial []
\* when the try block throws
readRecent(raw) ==
  LET p == ParseHistory(raw) IN
  IF p.threw \/ ~HasSlice(p.value) THEN StoreArray(<<>>)
  ELSE IF p.value.kind = "array" THEN StoreArray(Slice0(p.value.items, 6))
  ELSE Stored("string", <<>>, Slice0(p.value.chars, 6))

\* Home.jsx render: history.length > 0 && ... history.map(...). A string has
\* a length but no map, so rendering it throws outside any try block.
HomeRenderThrows(history) == history.kind = "string" /\ Len(history.chars) > 0

\* number of entries the home view lists
HomeLength(history) ==
  IF history.kind = "array" THEN Len(history.items) ELSE Len(history.chars)

---------------------------------------------------------------------------
(* The remote service, as CropForm.jsx consumes it *)

\* 2xx body of POST /farmer-crop-advisory-preview for a payload: the
\* PreviewSnapshot fields the client reads
PreviewSnapshots(payload) ==
  { [ location |-> payload.location,
      soil_source |-> IF payload.manual_soil = Null THEN "auto" ELSE "manual",
      weather_source |-> IF payload.temperature = Null THEN "api" ELSE "farmer" ] }

\* 2xx bodies of POST /farmer-crop-advisory
AdvisoryBodies ==
  { [ recommended_crop |-> "rice", estimated_profit |-> Some(500), top_crops |-> Null ],
    [ recommended_crop |-> "rice", estimated_profit |-> Some(500),
      top_crops |-> Some(<< [crop_name |-> "wheat", estimated_profit |-> Some(900)],
                            [crop_name |-> "rice", estimated_profit |-> Some(500)] >>) ] }

\* Error bodies of a non-2xx response. parsed = FALSE: response.json() rejects
\* and the .catch(() => null) yields null. detail is missing ("none"), a
\* string (str) or a list of items whose msg is list[i] (Null: no msg).
ErrData(parsed, detail, str, list) ==
  [parsed |-> parsed, detail |-> detail, str |-> str, list |-> list]

ErrBodies ==
  { ErrData(FALSE, "none", "", <<>>),
    ErrData(TRUE, "list", "", << Some("field required"), Some("bad value") >>) }

\* the outcomes of one fetch: a 2xx response with a body, a non-2xx response,
\* a rejected fetch (network error, with the message of the thrown error)
Response(kind, data, errData, message) ==
  [kind |-> kind, data |-> data, errData |-> errData, message |-> message]

NoErr == ErrData(FALSE, "none", "", <<>>)

Failures ==
  { Response("http_error", Null, e, "") : e \in ErrBodies }
  \cup { Response("network_error", Null, NoErr, "Failed to fetch") }

PreviewResponses(payload) ==
  { Response("ok", Some(d), NoErr, "") : d \in PreviewSnapshots(payload) } \cup Failures

ConfirmResponses ==
  { Response("ok", Some(a), NoErr, "") : a \in AdvisoryBodies } \cup Failures

RECURSIVE Join(_, _)
\* Array.prototype.join(sep) on a list of optional strings (undefined joins
\* as the empty string)
Join(list, sep) ==
  IF list = <<>> THEN ""
  ELSE LET h == IF Head(list) = Null THEN "" ELSE Val(Head(list))
       IN IF Len(list) = 1 THEN h ELSE h \o sep \o Join(Tail(list), sep)

\* a detail that shows only the first item of a list
ErrorDetail_firstItem(errData, fallback) ==
  LET d == IF ~errData.parsed \/ errData.detail = "none" THEN ""
           ELSE IF errData.detail = "list"
                THEN IF errData.list = <<>> THEN ""
                     ELSE Join(<<Head(errData.list)>>, "; ")
           ELSE errData.str
  IN IF d = "" THEN fallback ELSE d

\* (errData?.detail && (Array.isArray(errData.detail) ? errData.detail.map(d =>
\* d.msg).join("; ") : errData.detail)) || fallback
ErrorDetail(errData, fallback) ==
  LET d == IF ~errData.parsed \/ errData.detail = "none" THEN ""
           ELSE IF errData.detail = "list" THEN Join(errData.list, "; ")
           ELSE errData.str
  IN IF d = "" THEN fallback ELSE d

\* the message the catch block displays for a failed response:
\* err?.message || generic
FailureMessage(resp, fallback, generic) ==
  LET m == IF resp.kind = "http_error" THEN ErrorDetail(resp.errData, fallback)
           ELSE resp.message
  IN IF m = "" THEN generic ELSE m

---------------------------------------------------------------------------
(* State *)

VARIABLES
  route,          \* the page shown: "home", "crop" or "results"
  locState,       \* location.state of the current location on /results, or Null
  resultsEntry,   \* the state kept with the /results entry of the session history
  form,           \* CropForm: the form fields
  isLoading,      \* CropForm: a preview or confirm request is outstanding
  error,          \* CropForm: the displayed error message ("" for none)
  step,           \* CropForm: "form" or "confirm"
  previewData,    \* CropForm: the held PreviewSnapshot, or Null
  inflight,       \* preview and confirm requests that have not settled
  nextReq,        \* number of requests issued so far, plus one
  saved,          \* Results: the `saved` ref
  histStore,      \* localStorage["agrisense_history"]
  locCache,       \* localStorage["agrisense_last_location"], or Null
  clock,          \* the time new Date() reads
  homeHistory,    \* Home: the `history` state
  renderError,    \* a render threw: the application is down until reloaded
  previewPayload, \* history variable: the payload of the preview that produced previewData
  actions,        \* history variable: preview/confirm actions the user triggered
  confirmOks,     \* history variable: confirm requests that succeeded
  cropAppends,    \* history variable: "crop" entries written to the store
  appendLog,      \* history variable: entries appended since the store was last empty, oldest first
  last,           \* history variable: the handler or continuation that ran last
  platform,       \* what the browser offers: navigator.geolocation, SpeechRecognition,
                  \* and whether localStorage accepts writes (storage)
  mapCoords,      \* CropForm: the held coordinates, or Null
  usingGps,       \* CropForm: a GPS action is in progress
  gpsMessage,     \* CropForm: the detected location name shown under the input
  isListening,    \* CropForm: speech recognition is running
  locInflight,    \* position, reverse-geocode and recognition requests not yet settled
  nextLoc,        \* number of location requests issued so far, plus one
  normalized,     \* the payload last built from the form by buildPayload, or Null
  file,           \* DiseaseDetection: the staged file, or Null
  diseaseIsLoading, \* DiseaseDetection: isLoading
  diseaseError,   \* DiseaseDetection: the displayed error message ("" for none)
  result,         \* DiseaseDetection: the normalized result, or Null
  detectInflight, \* detect-disease requests that have not settled
  nextDetect,     \* number of detect-disease requests issued so far, plus one
  resultFile      \* history variable: the file whose detection produced result

routeVars == <<route, locState, resultsEntry>>
formVars == <<form, isLoading, error, step, previewData, previewPayload>>
storeVars == <<histStore, clock, cropAppends, appendLog>>
homeVars == <<homeHistory, renderError>>
\* CropForm's location state, and the location requests with their platform
resolverVars == <<mapCoords, usingGps, gpsMessage, isListening>>
resolverEnv == <<platform, locInflight, nextLoc>>
\* DiseaseDetection's state
diseaseVars == <<file, diseaseIsLoading, diseaseError, result, detectInflight,
                 nextDetect, resultFile>>
vars == <<route, locState, resultsEntry, form, isLoading, error, step, previewData,
          inflight, nextReq, saved, histStore, locCache, clock, homeHistory,
          renderError, previewPayload, actions, confirmOks, cropAppends, appendLog,
          last, platform, mapCoords, usingGps, gpsMessage, isListening, locInflight,
          nextLoc, normalized, file, diseaseIsLoading, diseaseError, result,
          detectInflight, nextDetect, resultFile>>

\* values the user can give the inputs of the form
LocationInputs == { <<" ">>, <<"A">>, <<" ", "B">> }
FieldInputs(name) ==
  IF name = "location" THEN LocationInputs ELSE {<<>>, <<"2">>}
EditedFields == {"location", "land_size"}

\* CropForm's useState initialisers: the cached location name prefills the form
InitialForm(cache) ==
  IF cache # Null /\ Val(cache).name # <<>>
  THEN [INITIAL_FORM EXCEPT !.location = Val(cache).name]
  ELSE INITIAL_FORM

\* line 266: the confirm view is rendered, otherwise the form view
ConfirmShown == route = "crop" /\ step = "confirm" /\ previewData # Null
FormShown == route = "crop" /\ ~ConfirmShown

\* a request whose CropForm is still mounted; the state setters of an
\* unmounted component do nothing
Live(r) == r.live

Request(id, kind, payload, snap, land) ==
  [id |-> id, kind |-> kind, live |-> TRUE, payload |-> payload,
   previewData |-> snap, land_size |-> land]

\* a browser with geolocation and speech recognition
FullPlatform == [geolocation |-> TRUE, speech |-> TRUE, storage |-> "ok"]

\* a rejected write that leaves an empty list behind
Persisted_clears(before, after) ==
  IF platform.storage = "ok" THEN after ELSE StoreArray(<<>>)

\* localStorage.setItem inside a try block whose catch ignores the exception:
\* the stored value after a write of `after` over `before`. With the quota
\* exhausted (storage "full") setItem throws and the value stays.
Persisted(before, after) == IF platform.storage = "ok" THEN after ELSE before

\* the state on page r with the history store holding `store` and the
\* location cache holding `cache`, in a browser offering `plat`, with the
\* form fields holding f and nothing requested yet
Started(r, store, cache, plat, f) ==
  /\ route = r
  /\ locState = Null
  /\ resultsEntry = Null
  /\ form = f
  /\ mapCoords = IF r = "crop" THEN InitialMapCoords(ParseCache(cache)) ELSE Null
  /\ usingGps = FALSE
  /\ gpsMessage = <<>>
  /\ isListening = FALSE
  /\ platform = plat
  /\ locInflight = {}
  /\ nextLoc = 1
  /\ normalized = Null
  /\ file = Null
  /\ diseaseIsLoading = FALSE
  /\ diseaseError = ""
  /\ result = Null
  /\ detectInflight = {}
  /\ nextDetect = 1
  /\ resultFile = Null
  /\ isLoading = FALSE
  /\ error = ""
  /\ step = "form"
  /\ previewData = Null
  /\ inflight = {}
  /\ nextReq = 1
  /\ saved = FALSE
  /\ histStore = store
  /\ locCache = cache
  /\ clock = 0
  /\ homeHistory = StoreArray(<<>>)
  /\ renderError = FALSE
  /\ previewPayload = Null
  /\ actions = 0
  /\ confirmOks = 0
  /\ cropAppends = 0
  /\ appendLog = IF store.kind = "array" THEN Reverse(store.items) ELSE <<>>
  /\ last = "init"

\* the state after the application has loaded on page r
Boot(r, store, cache, plat) ==
  Started(r, store, cache, plat,
          IF r = "crop" THEN InitialForm(ParseCache(cache)) ELSE INITIAL_FORM)

\* the state after the application has loaded on /crop-recommendation with
\* the history store holding `store`
Loaded(store) == Boot("crop", store, Null, FullPlatform)

\* a first visit: nothing is stored
Init == Loaded(StoreAbsent)

---------------------------------------------------------------------------
(* Results.jsx *)

\* handleConfirm, lines 236-246: the AdvisoryResult handed to the results view
ResultPayload(advisory, payload, land) ==
  [ recommendedCrop |-> advisory.recommended_crop,
    estimatedProfit |-> advisory.estimated_profit,
    topCrops |-> IF advisory.top_crops # Null THEN Val(advisory.top_crops)
                 ELSE << [crop_name |-> advisory.recommended_crop,
                          estimated_profit |-> advisory.estimated_profit] >>,
    inputs |-> payload,
    land_size |-> IF land # <<>> THEN Some(Number(land)) ELSE Null ]

\* Results, lines 120-123 and 131-133: the summary of the history entry
ResultsSummary(st) ==
  LET data == st.data
      crops == IF Len(data.topCrops) > 0 THEN data.topCrops
               ELSE << [crop_name |-> data.recommendedCrop,
                        estimated_profit |-> data.estimatedProfit] >>
  IN [ crop |-> IF crops[1].crop_name # "" THEN crops[1].crop_name
                ELSE data.recommendedCrop,
       location |-> IF st.inputSummary # Null /\ Val(st.inputSummary).location # <<>>
                    THEN Val(st.inputSummary).location
                    ELSE IF data.inputs.location # <<>> THEN data.inputs.location
                    ELSE <<"-">>,
       profit |-> crops[1].estimated_profit ]

\* Results, lines 126-136: the effect that saves to history, given the value
\* of the `saved` ref; yields the ref and the store afterwards.
\* st is location.state (Null when the view is opened without a result).
ResultsEffect(ref, st, store, now) ==
  IF ~ref /\ st # Null
  THEN [saved |-> TRUE,
        store |-> Persisted(store, saveToHistory(store, "crop",
                                                 ResultsSummary(Val(st)), now))]
  ELSE [saved |-> ref, store |-> store]

\* CropForm leaves the screen: its state is gone (kept at the initial values
\* here) and its outstanding requests live on without it
UnmountCropForm ==
  /\ form' = INITIAL_FORM
  /\ isLoading' = FALSE
  /\ error' = ""
  /\ step' = "form"
  /\ previewData' = Null
  /\ previewPayload' = Null
  /\ mapCoords' = Null
  /\ usingGps' = FALSE
  /\ gpsMessage' = <<>>
  /\ isListening' = FALSE

Orphaned(reqs) == { [r EXCEPT !.live = FALSE] : r \in reqs }

\* DiseaseDetection leaves the screen: its state is gone (kept at the
\* initial values here)
UnmountDisease ==
  /\ file' = Null
  /\ diseaseIsLoading' = FALSE
  /\ diseaseError' = ""
  /\ result' = Null
  /\ resultFile' = Null

\* The router shows /results with location.state = st. A Results component
\* that is already mounted with a result keeps its refs; otherwise a new one
\* is mounted. React runs the effect once, or twice under StrictMode in a
\* development build (main.jsx), with the same ref.
EnterResults(st, reqs) ==
  /\ route' = "results"
  /\ locState' = st
  /\ LET ref0 == IF route = "results" /\ locState # Null THEN saved ELSE FALSE
         e1 == ResultsEffect(ref0, st, histStore, clock)
         e2 == ResultsEffect(e1.saved, st, e1.store, clock)
         ran == ~ref0 /\ st # Null
     IN \E runs \in {1, 2} :
          LET e == IF runs = 1 THEN e1 ELSE e2 IN
          /\ saved' = e.saved
          /\ histStore' = e.store
          /\ clock' = IF ran THEN clock + 1 ELSE clock
          /\ cropAppends' = IF e.store = histStore THEN cropAppends ELSE cropAppends + 1
          /\ appendLog' = IF ran /\ Writable(histStore) /\ platform.storage = "ok"
                          THEN Append(appendLog,
                                 HistoryEntry("crop", ResultsSummary(Val(st)), clock))
                          ELSE appendLog
  /\ UnmountCropForm
  /\ inflight' = Orphaned(reqs)
  /\ homeHistory' = StoreArray(<<>>)
  /\ UnmountDisease
  /\ UNCHANGED <<renderError, locCache, platform, nextLoc, normalized, nextDetect>>

---------------------------------------------------------------------------
(* Navigation *)

\* a NavLink or button to /crop-recommendation: a new CropForm is mounted
OpenCropForm ==
  /\ ~renderError
  /\ last' = "OpenCropForm"
  /\ route # "crop"
  /\ route' = "crop"
  /\ locState' = Null
  /\ form' = InitialForm(ParseCache(locCache))
  /\ mapCoords' = InitialMapCoords(ParseCache(locCache))
  /\ usingGps' = FALSE
  /\ gpsMessage' = <<>>
  /\ isListening' = FALSE
  /\ isLoading' = FALSE
  /\ error' = ""
  /\ step' = "form"
  /\ previewData' = Null
  /\ previewPayload' = Null
  /\ saved' = FALSE
  /\ homeHistory' = StoreArray(<<>>)
  /\ UnmountDisease
  /\ detectInflight' = Orphaned(detectInflight)
  /\ UNCHANGED <<resultsEntry, inflight, nextReq, storeVars, locCache, renderError,
                 actions, confirmOks, resolverEnv, normalized, nextDetect>>

\* a NavLink to /disease-detection: a new DiseaseDetection is mounted
OpenDisease ==
  /\ ~renderError
  /\ last' = "OpenDisease"
  /\ route # "disease"
  /\ route' = "disease"
  /\ locState' = Null
  /\ UnmountCropForm
  /\ inflight' = Orphaned(inflight)
  /\ locInflight' = Orphaned(locInflight)
  /\ saved' = FALSE
  /\ homeHistory' = StoreArray(<<>>)
  /\ UnmountDisease
  /\ detectInflight' = Orphaned(detectInflight)
  /\ UNCHANGED <<resultsEntry, nextReq, storeVars, locCache, renderError, actions,
                 confirmOks, platform, nextLoc, normalized, nextDetect>>

\* a NavLink to /home: Home is mounted and its effect reads the history
OpenHome ==
  /\ ~renderError
  /\ last' = "OpenHome"
  /\ route # "home"
  /\ route' = "home"
  /\ locState' = Null
  /\ UnmountCropForm
  /\ inflight' = Orphaned(inflight)
  /\ locInflight' = Orphaned(locInflight)
  /\ saved' = FALSE
  /\ homeHistory' = readRecent(histStore)
  /\ renderError' = HomeRenderThrows(readRecent(histStore))
  /\ UnmountDisease
  /\ detectInflight' = Orphaned(detectInflight)
  /\ UNCHANGED <<resultsEntry, nextReq, storeVars, locCache, actions, confirmOks,
                 platform, nextLoc, normalized, nextDetect>>

\* Home.jsx clearHistory; the button is rendered when history.length > 0
clearHistory ==
  /\ ~renderError
  /\ last' = "clearHistory"
  /\ route = "home"
  /\ HomeLength(homeHistory) > 0
  /\ histStore' = StoreAbsent
  /\ homeHistory' = StoreArray(<<>>)
  /\ appendLog' = <<>>
  /\ UNCHANGED <<routeVars, formVars, inflight, nextReq, saved, locCache, clock,
                 renderError, actions, confirmOks, cropAppends,
                 resolverVars, resolverEnv, normalized, diseaseVars>>

\* the browser's Back/Forward returns to the /results entry of the session
\* history, which carries the state it was pushed with
BackToResults ==
  /\ ~renderError
  /\ last' = "BackToResults"
  /\ route # "results"
  /\ resultsEntry # Null
  /\ clock < MaxResultsAppends
  /\ EnterResults(resultsEntry, inflight)
  /\ locInflight' = Orphaned(locInflight)
  /\ detectInflight' = Orphaned(detectInflight)
  /\ UNCHANGED <<resultsEntry, nextReq, actions, confirmOks>>

\* /results loaded by its address: no location.state; the page load ends
\* every outstanding request
OpenResultsDirect ==
  /\ ~renderError
  /\ last' = "OpenResultsDirect"
  /\ route # "results"
  /\ EnterResults(Null, {})
  /\ locInflight' = {}
  /\ detectInflight' = {}
  /\ UNCHANGED <<resultsEntry, nextReq, actions, confirmOks>>

---------------------------------------------------------------------------
(* CropForm.jsx handlers *)

handleChange(name, value) ==
  /\ ~renderError
  /\ last' = "handleChange"
  /\ FormShown
  /\ form[name] # value
  /\ form' = [form EXCEPT ![name] = value]
  /\ gpsMessage' = <<>>
  /\ UNCHANGED <<routeVars, isLoading, error, step, previewData, previewPayload,
                 inflight, nextReq, saved, storeVars, locCache, homeVars,
                 actions, confirmOks, mapCoords, usingGps, isListening,
                 resolverEnv, normalized, diseaseVars>>

\* a validation that forgets to trim
LocationMissing_noTrim(f) == f.location = <<>>

\* line 188: !form.location.trim()
LocationMissing(f) == Trim(f.location) = <<>>

\* a submit button that stays enabled
SubmitDisabled_never == FALSE

\* line 689: the form's submit button is disabled while isLoading
SubmitDisabled == isLoading

handlePreview ==
  /\ ~renderError
  /\ last' = "handlePreview"
  /\ FormShown
  /\ ~SubmitDisabled
  /\ actions < MaxActions
  /\ actions' = actions + 1
  /\ IF LocationMissing(form)
     THEN /\ error' = "Please enter a location."
          /\ UNCHANGED <<isLoading, inflight, nextReq>>
     ELSE /\ error' = ""
          /\ isLoading' = TRUE
          /\ inflight' = inflight \cup
               {Request(nextReq, "preview", buildPayload(form), Null, form.land_size)}
          /\ nextReq' = nextReq + 1
  /\ UNCHANGED <<routeVars, form, step, previewData, previewPayload, saved, storeVars,
                 locCache, homeVars, confirmOks,
                 resolverVars, resolverEnv, normalized, diseaseVars>>

\* handlePreview after the await: the response of the preview request r
previewSettle(r, resp) ==
  /\ ~renderError
  /\ last' = "previewSettle"
  /\ r \in inflight
  /\ r.kind = "preview"
  /\ inflight' = inflight \ {r}
  /\ IF Live(r)
     THEN /\ isLoading' = FALSE
          /\ IF resp.kind = "ok"
             THEN /\ previewData' = resp.data
                  /\ previewPayload' = Some(r.payload)
                  /\ step' = "confirm"
                  /\ UNCHANGED error
             ELSE /\ error' = FailureMessage(resp, "Preview failed.",
                      "Unable to load location data. Check backend and try again.")
                  /\ UNCHANGED <<previewData, previewPayload, step>>
     ELSE UNCHANGED <<isLoading, error, step, previewData, previewPayload>>
  /\ UNCHANGED <<routeVars, form, nextReq, saved, storeVars, locCache, homeVars,
                 actions, confirmOks,
                 resolverVars, resolverEnv, normalized, diseaseVars>>

\* the confirm button is rendered in the confirm view and disabled while
\* isLoading
handleConfirm ==
  /\ ~renderError
  /\ last' = "handleConfirm"
  /\ ConfirmShown
  /\ ~isLoading
  /\ actions < MaxActions
  /\ actions' = actions + 1
  /\ IF previewData = Null
     THEN UNCHANGED <<isLoading, error, inflight, nextReq>>
     ELSE /\ isLoading' = TRUE
          /\ error' = ""
          /\ inflight' = inflight \cup
               {Request(nextReq, "confirm", buildPayload(form), previewData, form.land_size)}
          /\ nextReq' = nextReq + 1
  /\ UNCHANGED <<routeVars, form, step, previewData, previewPayload, saved, storeVars,
                 locCache, homeVars, confirmOks,
                 resolverVars, resolverEnv, normalized, diseaseVars>>

\* a failure path that also drops the snapshot and returns to the form
confirmFail_toForm(r, resp) ==
  /\ ~renderError
  /\ last' = "confirmFail"
  /\ r \in inflight
  /\ r.kind = "confirm"
  /\ resp.kind # "ok"
  /\ inflight' = inflight \ {r}
  /\ IF Live(r)
     THEN /\ isLoading' = FALSE
          /\ step' = "form"
          /\ previewData' = Null
          /\ error' = FailureMessage(resp, "Advisory request failed.",
                        "Unable to fetch recommendations. Please try again.")
     ELSE UNCHANGED <<isLoading, error, step, previewData>>
  /\ UNCHANGED <<routeVars, form, previewPayload, nextReq, saved,
                 storeVars, locCache, homeVars, actions, confirmOks,
                 resolverVars, resolverEnv, normalized, diseaseVars>>

\* handleConfirm after the await, a response that is not a success
confirmFail(r, resp) ==
  /\ ~renderError
  /\ last' = "confirmFail"
  /\ r \in inflight
  /\ r.kind = "confirm"
  /\ resp.kind # "ok"
  /\ inflight' = inflight \ {r}
  /\ IF Live(r)
     THEN /\ isLoading' = FALSE
          /\ error' = FailureMessage(resp, "Advisory request failed.",
                        "Unable to fetch recommendations. Please try again.")
     ELSE UNCHANGED <<isLoading, error>>
  /\ UNCHANGED <<routeVars, form, step, previewData, previewPayload, nextReq, saved,
                 storeVars, locCache, homeVars, actions, confirmOks,
                 resolverVars, resolverEnv, normalized, diseaseVars>>

\* handleConfirm after the await, a 2xx response: navigate("/results", ...)
\* with the payload, land size and snapshot the handler captured
confirmOk(r, resp) ==
  /\ ~renderError
  /\ last' = "confirmOk"
  /\ r \in inflight
  /\ r.kind = "confirm"
  /\ resp.kind = "ok"
  /\ LET st == Some([ data |-> ResultPayload(Val(resp.data), r.payload, r.land_size),
                      inputSummary |-> r.previewData ])
     IN /\ EnterResults(st, inflight \ {r})
        /\ resultsEntry' = st
  /\ locInflight' = Orphaned(locInflight)
  /\ detectInflight' = Orphaned(detectInflight)
  /\ confirmOks' = confirmOks + 1
  /\ UNCHANGED <<nextReq, actions>>

\* a back action that forgets setStep("form")
handleBackToForm_keepStep ==
  /\ ~renderError
  /\ last' = "handleBackToForm"
  /\ ConfirmShown
  /\ ~isLoading
  /\ previewData' = Null
  /\ previewPayload' = Null
  /\ error' = ""
  /\ UNCHANGED <<routeVars, form, step, isLoading, inflight, nextReq, saved, storeVars,
                 locCache, homeVars, actions, confirmOks,
                 resolverVars, resolverEnv, normalized, diseaseVars>>

\* a back action that also resets the form
handleBackToForm_resetForm ==
  /\ ~renderError
  /\ last' = "handleBackToForm"
  /\ ConfirmShown
  /\ ~isLoading
  /\ step' = "form"
  /\ previewData' = Null
  /\ previewPayload' = Null
  /\ error' = ""
  /\ form' = INITIAL_FORM
  /\ UNCHANGED <<routeVars, isLoading, inflight, nextReq, saved, storeVars,
                 locCache, homeVars, actions, confirmOks,
                 resolverVars, resolverEnv, normalized, diseaseVars>>

handleBackToForm ==
  /\ ~renderError
  /\ last' = "handleBackToForm"
  /\ ConfirmShown
  /\ ~isLoading
  /\ step' = "form"
  /\ previewData' = Null
  /\ previewPayload' = Null
  /\ error' = ""
  /\ UNCHANGED <<routeVars, form, isLoading, inflight, nextReq, saved, storeVars,
                 locCache, homeVars, actions, confirmOks,
                 resolverVars, resolverEnv, normalized, diseaseVars>>

Next ==
  \/ OpenCropForm
  \/ OpenHome
  \/ clearHistory
  \/ BackToResults
  \/ OpenResultsDirect
  \/ \E name \in EditedFields : \E value \in FieldInputs(name) : handleChange(name, value)
  \/ handlePreview
  \/ \E r \in inflight : \E resp \in PreviewResponses(r.payload) : previewSettle(r, resp)
  \/ handleConfirm
  \/ \E r \in inflight : \E resp \in Failures : confirmFail(r, resp)
  \/ \E r \in inflight : \E resp \in ConfirmResponses : confirmOk(r, resp)
  \/ handleBackToForm

Spec == Init /\ [][Next]_vars

---------------------------------------------------------------------------
(* The history store on its own: appends by the two workflows, reads and    *)
(* clears by the home view, from every kind of stored value                 *)

\* entries written by an earlier session, newest first
OldEntries ==
  << HistoryEntry("disease", [disease |-> "rust", confidence |-> Some(910), fileName |-> "old.jpg"], -1),
     HistoryEntry("crop", [crop |-> "maize", location |-> <<"C">>, profit |-> Some(300)], -2) >>

InitialStores ==
  { StoreAbsent,
    Stored("empty", <<>>, <<>>),
    Stored("unparsable", <<>>, <<>>),
    Stored("null", <<>>, <<>>),
    Stored("number", <<>>, <<>>),
    Stored("object", <<>>, <<>>),
    Stored("string", <<>>, <<"a", "b">>),
    StoreArray(<<>>),
    StoreArray(OldEntries) }

InitHistory == \E store \in InitialStores : Loaded(store)

\* a result as handleConfirm hands it to the results view
SampleResult ==
  LET f == [INITIAL_FORM EXCEPT !.location = <<"A">>]
      p == buildPayload(f)
      a == CHOOSE x \in AdvisoryBodies : x.top_crops = Null
      snap == CHOOSE x \in PreviewSnapshots(p) : TRUE
  IN [data |-> ResultPayload(a, p, f.land_size), inputSummary |-> Some(snap)]

\* the normalized fields of a detection, confidence in thousandths
DiseaseSummaries ==
  { [disease |-> "blight", confidence |-> Some(870), fileName |-> "leaf.jpg"] }

DiseaseCount(log) == Cardinality({i \in 1..Len(log) : log[i].type = "disease"})

\* the results view is mounted with a result (the tail of a successful confirm)
resultsMounted ==
  /\ ~renderError
  /\ last' = "resultsMounted"
  /\ route # "results"
  /\ clock < MaxAppends
  /\ EnterResults(Some(SampleResult), inflight)
  /\ locInflight' = Orphaned(locInflight)
  /\ detectInflight' = Orphaned(detectInflight)
  /\ UNCHANGED <<resultsEntry, nextReq, actions, confirmOks>>

\* handleDetect, lines 104-116: the history append of a successful detection
detectSaved(summary) ==
  /\ last' = "detectSaved"
  /\ clock < MaxAppends
  /\ DiseaseCount(appendLog) < MaxDiseaseAppends
  /\ histStore' = Persisted(histStore, detectSaveHistory(histStore, summary, clock))
  /\ clock' = clock + 1
  /\ appendLog' = IF Writable(histStore) /\ platform.storage = "ok"
                  THEN Append(appendLog, HistoryEntry("disease", summary, clock))
                  ELSE appendLog
  /\ UNCHANGED <<routeVars, formVars, inflight, nextReq, saved, locCache, homeVars,
                 actions, confirmOks, cropAppends,
                 resolverVars, resolverEnv, normalized, diseaseVars>>

NextHistory ==
  \/ resultsMounted
  \/ \E summary \in DiseaseSummaries : detectSaved(summary)
  \/ OpenHome
  \/ clearHistory
  \/ OpenCropForm

SpecHistory == InitHistory /\ [][NextHistory]_vars

---------------------------------------------------------------------------
(* CropForm.jsx: the location resolver. The four ways to give a location:   *)
(* typing, speech recognition, a GPS fix, a point picked on the map.        *)

\* points a GPS fix or a map click can deliver
Points == { Coords(1852043, 7385678), Coords(-4, -7385678) }

\* what the user types into the location input
TypedLocations == { <<"A">> }

\* what the recognizer can hear
Transcripts == { <<"P", "u", "n", "e">> }

Platforms == [geolocation : BOOLEAN, speech : BOOLEAN, storage : {"ok"}]

\* stored values of the location cache the form can be opened with
InitialCaches ==
  { Null,
    Some(CacheText("empty", <<>>, Null)),
    Some(CacheText("unparsable", <<>>, Null)),
    Some(CacheText("null", <<>>, Null)),
    Some(CacheText("string", <<>>, Null)),
    Some(CacheText("object", <<>>, Some(Coords(1852043, 7385678)))),
    Some(CacheText("object", <<"C">>, Null)),
    Some(CacheText("object", <<"C">>, Some(Coords(1852043, 7385678)))) }

\* the form is opened with any of the caches in a browser that has both
\* capabilities, or for the first time in any browser
InitLocation ==
  \/ \E cache \in InitialCaches : Boot("crop", StoreAbsent, cache, FullPlatform)
  \/ \E plat \in Platforms : Boot("crop", StoreAbsent, Null, plat)

\* kind is "voice", "gps" or "map"; stage is "starting" (recognition.start()
\* called, the start event not yet delivered), "speech" (recognition
\* running), "position" (getCurrentPosition pending) or "geocode" (the
\* reverse-geocode fetch of resolveLocation pending, for coords)
LocRequest(id, kind, stage, coords) ==
  [id |-> id, kind |-> kind, stage |-> stage, live |-> TRUE, coords |-> coords]

\* the voice button is disabled while isListening; the handler creates a
\* recognition, attaches its callbacks and calls start()
handleVoiceInput ==
  /\ ~renderError
  /\ last' = "handleVoiceInput"
  /\ FormShown
  /\ ~isListening
  /\ nextLoc <= MaxLocRequests
  /\ IF ~platform.speech
     THEN /\ error' = "Voice input is not supported in this browser."
          /\ UNCHANGED <<locInflight, nextLoc>>
     ELSE /\ locInflight' = locInflight \cup {LocRequest(nextLoc, "voice", "starting", Null)}
          /\ nextLoc' = nextLoc + 1
          /\ UNCHANGED error
  /\ UNCHANGED <<routeVars, form, isLoading, step, previewData, previewPayload,
                 inflight, nextReq, saved, storeVars, locCache, homeVars, actions,
                 confirmOks, platform, mapCoords, usingGps, gpsMessage, isListening,
                 normalized, diseaseVars>>

\* recognition.onstart: the recognition service has begun to listen
voiceStarted(r) ==
  /\ ~renderError
  /\ last' = "voiceStarted"
  /\ r \in locInflight
  /\ r.kind = "voice"
  /\ r.stage = "starting"
  /\ locInflight' = (locInflight \ {r}) \cup {[r EXCEPT !.stage = "speech"]}
  /\ IF Live(r) THEN isListening' = TRUE ELSE UNCHANGED isListening
  /\ UNCHANGED <<routeVars, formVars, inflight, nextReq, saved, storeVars, locCache,
                 homeVars, actions, confirmOks, platform, nextLoc, mapCoords,
                 usingGps, gpsMessage, normalized, diseaseVars>>

\* recognition.onresult, followed by recognition.onend
voiceResult(r, transcript) ==
  /\ ~renderError
  /\ last' = "voiceResult"
  /\ r \in locInflight
  /\ r.kind = "voice"
  /\ r.stage = "speech"
  /\ locInflight' = locInflight \ {r}
  /\ IF Live(r)
     THEN /\ form' = [form EXCEPT !.location = transcript]
          /\ gpsMessage' = <<>>
          /\ isListening' = FALSE
     ELSE UNCHANGED <<form, gpsMessage, isListening>>
  /\ UNCHANGED <<routeVars, isLoading, error, step, previewData, previewPayload,
                 inflight, nextReq, saved, storeVars, locCache, homeVars, actions,
                 confirmOks, platform, nextLoc, mapCoords, usingGps, normalized,
                 diseaseVars>>

\* recognition.onerror, followed by recognition.onend; start() can fail
\* before the start event (permission denied, service unavailable)
voiceError(r) ==
  /\ ~renderError
  /\ last' = "voiceError"
  /\ r \in locInflight
  /\ r.kind = "voice"
  /\ locInflight' = locInflight \ {r}
  /\ IF Live(r)
     THEN /\ error' = "Could not recognize speech. Please try again."
          /\ isListening' = FALSE
     ELSE UNCHANGED <<error, isListening>>
  /\ UNCHANGED <<routeVars, form, isLoading, step, previewData, previewPayload,
                 inflight, nextReq, saved, storeVars, locCache, homeVars, actions,
                 confirmOks, platform, nextLoc, mapCoords, usingGps, gpsMessage,
                 normalized, diseaseVars>>

\* the GPS button is disabled while usingGps
handleUseGps ==
  /\ ~renderError
  /\ last' = "handleUseGps"
  /\ FormShown
  /\ ~usingGps
  /\ nextLoc <= MaxLocRequests
  /\ IF ~platform.geolocation
     THEN /\ error' = "GPS is not supported in this browser. Please enter location manually."
          /\ UNCHANGED <<gpsMessage, usingGps, locInflight, nextLoc>>
     ELSE /\ error' = ""
          /\ gpsMessage' = <<>>
          /\ usingGps' = TRUE
          /\ locInflight' = locInflight \cup {LocRequest(nextLoc, "gps", "position", Null)}
          /\ nextLoc' = nextLoc + 1
  /\ UNCHANGED <<routeVars, form, isLoading, step, previewData, previewPayload,
                 inflight, nextReq, saved, storeVars, locCache, homeVars, actions,
                 confirmOks, platform, mapCoords, isListening, normalized,
                 diseaseVars>>

\* getCurrentPosition's success callback up to its await: the position is
\* read and resolveLocation issues the reverse-geocode fetch
gpsPosition(r, point) ==
  /\ ~renderError
  /\ last' = "gpsPosition"
  /\ r \in locInflight
  /\ r.kind = "gps"
  /\ r.stage = "position"
  /\ locInflight' = (locInflight \ {r})
                      \cup {[r EXCEPT !.stage = "geocode", !.coords = Some(point)]}
  /\ UNCHANGED <<routeVars, formVars, inflight, nextReq, saved, storeVars, locCache,
                 homeVars, actions, confirmOks, platform, nextLoc, resolverVars,
                 normalized, diseaseVars>>

\* a failure path that also clears the location
gpsFailed_clearsLocation(r) ==
  /\ ~renderError
  /\ last' = "gpsFailed"
  /\ r \in locInflight
  /\ r.kind = "gps"
  /\ r.stage = "position"
  /\ locInflight' = locInflight \ {r}
  /\ IF Live(r)
     THEN /\ error' = "Unable to fetch GPS location. Please enter location manually."
          /\ usingGps' = FALSE
          /\ form' = [form EXCEPT !.location = <<>>]
     ELSE UNCHANGED <<error, usingGps, form>>
  /\ UNCHANGED <<routeVars, isLoading, step, previewData, previewPayload,
                 inflight, nextReq, saved, storeVars, locCache, homeVars, actions,
                 confirmOks, platform, nextLoc, mapCoords, gpsMessage, isListening,
                 normalized, diseaseVars>>

\* getCurrentPosition's error callback: denial, unavailability or timeout
gpsFailed(r) ==
  /\ ~renderError
  /\ last' = "gpsFailed"
  /\ r \in locInflight
  /\ r.kind = "gps"
  /\ r.stage = "position"
  /\ locInflight' = locInflight \ {r}
  /\ IF Live(r)
     THEN /\ error' = "Unable to fetch GPS location. Please enter location manually."
          /\ usingGps' = FALSE
     ELSE UNCHANGED <<error, usingGps>>
  /\ UNCHANGED <<routeVars, form, isLoading, step, previewData, previewPayload,
                 inflight, nextReq, saved, storeVars, locCache, homeVars, actions,
                 confirmOks, platform, nextLoc, mapCoords, gpsMessage, isListening,
                 normalized, diseaseVars>>

\* the success callback after the await, lines 162-166; the cache is written
\* whether or not the form is still mounted
gpsResolved(r, res) ==
  /\ ~renderError
  /\ last' = "gpsResolved"
  /\ r \in locInflight
  /\ r.kind = "gps"
  /\ r.stage = "geocode"
  /\ locInflight' = locInflight \ {r}
  /\ LET point == Val(r.coords)
         locationName == resolveLocation(point.lat, point.lng, res)
     IN /\ locCache' = Persisted(locCache, saveLocationCache(locationName, point))
        /\ IF Live(r)
           THEN /\ form' = [form EXCEPT !.location = locationName]
                /\ mapCoords' = Some(point)
                /\ gpsMessage' = locationName
                /\ usingGps' = FALSE
           ELSE UNCHANGED <<form, mapCoords, gpsMessage, usingGps>>
  /\ UNCHANGED <<routeVars, isLoading, error, step, previewData, previewPayload,
                 inflight, nextReq, saved, storeVars, homeVars, actions,
                 confirmOks, platform, nextLoc, isListening, normalized,
                 diseaseVars>>

\* MapPicker handlePinChange, then handleMapSelect up to its await
handleMapSelect(point) ==
  /\ ~renderError
  /\ last' = "handleMapSelect"
  /\ FormShown
  /\ nextLoc <= MaxLocRequests
  /\ mapCoords' = Some(point)
  /\ gpsMessage' = <<>>
  /\ locInflight' = locInflight \cup {LocRequest(nextLoc, "map", "geocode", Some(point))}
  /\ nextLoc' = nextLoc + 1
  /\ UNCHANGED <<routeVars, formVars, inflight, nextReq, saved, storeVars, locCache,
                 homeVars, actions, confirmOks, platform, usingGps, isListening,
                 normalized, diseaseVars>>

\* handleMapSelect after the await, lines 180-182
mapResolved(r, res) ==
  /\ ~renderError
  /\ last' = "mapResolved"
  /\ r \in locInflight
  /\ r.kind = "map"
  /\ locInflight' = locInflight \ {r}
  /\ LET point == Val(r.coords)
         locationName == resolveLocation(point.lat, point.lng, res)
     IN /\ locCache' = Persisted(locCache, saveLocationCache(locationName, point))
        /\ IF Live(r)
           THEN /\ form' = [form EXCEPT !.location = locationName]
                /\ gpsMessage' = locationName
           ELSE UNCHANGED <<form, gpsMessage>>
  /\ UNCHANGED <<routeVars, isLoading, error, step, previewData, previewPayload,
                 inflight, nextReq, saved, storeVars, homeVars, actions,
                 confirmOks, platform, nextLoc, mapCoords, usingGps, isListening,
                 normalized, diseaseVars>>

NextLocation ==
  \/ \E value \in TypedLocations : handleChange("location", value)
  \/ handleVoiceInput
  \/ \E r \in locInflight : voiceStarted(r)
  \/ \E r \in locInflight : \E transcript \in Transcripts : voiceResult(r, transcript)
  \/ \E r \in locInflight : voiceError(r)
  \/ handleUseGps
  \/ \E r \in locInflight : \E point \in Points : gpsPosition(r, point)
  \/ \E r \in locInflight : gpsFailed(r)
  \/ \E r \in locInflight : \E res \in GeoResponses : gpsResolved(r, res)
  \/ \E point \in Points : handleMapSelect(point)
  \/ \E r \in locInflight : \E res \in GeoResponses : mapResolved(r, res)
  \/ OpenHome
  \/ OpenCropForm

SpecLocation == InitLocation /\ [][NextLocation]_vars

---------------------------------------------------------------------------
(* The payload normalizer on its own: buildPayload applied to a filled form *)

SoilInputs == { <<>>, <<"0">>, <<"4", "2">> }
PhInputs == { <<>>, <<"0">>, <<"6">> }

\* forms the user can have filled in: a location, the three weather
\* selections, the four soil inputs
PayloadForms ==
  { [INITIAL_FORM EXCEPT !.location = l, !.temperature = t, !.humidity = h,
                         !.rainfall = rf, !.N = n, !.P = pp, !.K = k, !.ph = ph] :
      l \in { <<"P", "u", "n", "e">>, <<" ", "B">> },
      t \in {"", "Cool", "Moderate", "Hot"},
      h \in {"", "Low", "Medium", "High"},
      rf \in {"", "Low", "Medium", "High"},
      n \in SoilInputs, pp \in SoilInputs, k \in SoilInputs, ph \in PhInputs }

InitPayload ==
  \E f \in PayloadForms : Started("crop", StoreAbsent, Null, FullPlatform, f)

\* handlePreview line 193, handleConfirm line 221: const payload =
\* buildPayload(form)
applyBuildPayload ==
  /\ last' = "buildPayload"
  /\ normalized = Null
  /\ normalized' = Some(buildPayload(form))
  /\ UNCHANGED <<routeVars, formVars, inflight, nextReq, saved, storeVars, locCache,
                 homeVars, actions, confirmOks, resolverVars, resolverEnv,
                 diseaseVars>>

NextPayload == applyBuildPayload

SpecPayload == InitPayload /\ [][NextPayload]_vars

---------------------------------------------------------------------------
(* DiseaseDetection.jsx: stage a leaf image, submit it, show the result *)

\* a File: its name, its size in bytes, and its MIME type as the part before
\* and after the slash (major "" for an unknown type)
ImageFile(name, size, major, minor) ==
  [name |-> name, size |-> size, type |-> [major |-> major, minor |-> minor]]

\* files the user can select or drop: small images, an image of exactly
\* 10 MB, one byte more, 12 MB, a small document, a large document
Files ==
  { ImageFile("leaf.jpg", 204800, "image", "jpeg"),
    ImageFile("max.png", 10485760, "image", "png"),
    ImageFile("over.jpg", 10485761, "image", "jpeg"),
    ImageFile("huge.jpg", 12582912, "image", "jpeg"),
    ImageFile("notes.pdf", 4096, "application", "pdf"),
    ImageFile("scan.pdf", 12582912, "application", "pdf") }

\* dropped.type.startsWith("image/")
IsImageType(type) == type.major = "image"

\* a validation without the size limit
processFile_noLimit(selected, staged) ==
  IF selected = Null THEN [file |-> Null, error |-> "", result |-> Null]
  ELSE [file |-> selected, error |-> "", result |-> Null]

\* processFile(selected) with `staged` the file held before: the file, error
\* and result afterwards
processFile(selected, staged) ==
  IF selected = Null THEN [file |-> Null, error |-> "", result |-> Null]
  ELSE IF Val(selected).size > 10 * 1024 * 1024
  THEN [file |-> staged, error |-> "File too large. Maximum size is 10MB.", result |-> Null]
  ELSE [file |-> selected, error |-> "", result |-> Null]

\* The 2xx body of POST /detect-disease: each field is Null when missing or
\* JSON null, names and advice are non-empty strings, numbers are in
\* thousandths (870 is 0.87, 87000 is 87).
DetectBody(dn, d, l, c, cp, ta, t, rec, adv) ==
  [ disease_name |-> dn, disease |-> d, label |-> l,
    confidence |-> c, confidence_percent |-> cp,
    treatment_advice |-> ta, treatment |-> t, recommendation |-> rec, advice |-> adv ]

Opt(v) == {Null, Some(v)}

\* bodies that vary the name fields, the confidence fields and the treatment
\* fields in turn
DetectBodies ==
  { DetectBody(dn, d, l, Some(870), Null, Null, Null, Null, Some("prune")) :
      dn \in Opt("blight"), d \in Opt("rust"), l \in Opt("leaf_spot") }
  \cup
  { DetectBody(Null, Null, Some("leaf_spot"), c, cp, Null, Null, Null, Null) :
      c \in {Null, Some(0), Some(250), Some(870)}, cp \in Opt(87000) }
  \cup
  { DetectBody(Some("blight"), Null, Null, Some(870), Null, ta, t, rec, adv) :
      ta \in Opt("spray"), t \in Opt("remove leaves"),
      rec \in Opt("rotate crops"), adv \in Opt("prune") }

\* a || b || ... || fallback over optional strings
RECURSIVE FirstPresent(_, _)
FirstPresent(candidates, fallback) ==
  IF candidates = <<>> THEN fallback
  ELSE IF Head(candidates) # Null THEN Head(candidates)
  ELSE FirstPresent(Tail(candidates), fallback)

\* a normalization that takes confidence by data.confidence || ...
normalizeResult_truthyConfidence(data) ==
  [ diseaseName |->
      Val(FirstPresent(<<data.disease_name, data.disease, data.label>>,
                       Some("Unknown disease"))),
    confidence |-> IF data.confidence # Null /\ Val(data.confidence) # 0
                   THEN data.confidence ELSE data.confidence_percent,
    treatment |->
      FirstPresent(<<data.treatment_advice, data.treatment, data.recommendation,
                     data.advice>>, Null) ]

\* handleDetect lines 98-102: the object given to setResult
normalizeResult(data) ==
  [ diseaseName |->
      Val(FirstPresent(<<data.disease_name, data.disease, data.label>>,
                       Some("Unknown disease"))),
    confidence |-> IF data.confidence # Null THEN data.confidence
                   ELSE data.confidence_percent,
    treatment |->
      FirstPresent(<<data.treatment_advice, data.treatment, data.recommendation,
                     data.advice>>, Null) ]

\* handleDetect lines 107-112: the summary of the history entry, for the file
\* the handler captured
detectSummary(data, f) ==
  [ disease |->
      Val(FirstPresent(<<data.disease_name, data.disease, data.label>>, Some("Unknown"))),
    confidence |-> data.confidence,
    fileName |-> IF f.name # "" THEN f.name ELSE "image" ]

\* lines 125-127: the confidence of the displayed result as a percentage, in
\* thousandths of a percent (87000 is 87%); 0 when the result holds no number
confidencePercent(res) ==
  IF res # Null /\ Val(res).confidence # Null
  THEN IF Val(Val(res).confidence) * 100 < 100000
       THEN Val(Val(res).confidence) * 100
       ELSE 100000
  ELSE 0

\* line 244: the condition under which the low-confidence warning is rendered
\* inside the result panel
LowConfidenceShown(res) ==
  /\ res # Null
  /\ confidencePercent(res) > 0
  /\ confidencePercent(res) < 40000

\* The outcomes of the detect-disease fetch that end in the catch block: a
\* non-2xx response whose body is not JSON (parsed FALSE) or is JSON with
\* optional string fields detail and message; a rejected fetch; a 2xx body
\* that is not JSON
DetectFailure(kind, parsed, detail, message, thrown) ==
  [kind |-> kind, parsed |-> parsed, detail |-> detail, message |-> message,
   thrown |-> thrown]

DetectFailures ==
  { DetectFailure("http_error", FALSE, Null, Null, ""),
    DetectFailure("http_error", TRUE, Some("not a leaf"), Some("rejected"), ""),
    DetectFailure("http_error", TRUE, Null, Some("model offline"), ""),
    DetectFailure("network_error", FALSE, Null, Null, "Failed to fetch"),
    DetectFailure("bad_body", FALSE, Null, Null, "Unexpected end of JSON input") }

\* lines 88-96 and 119: the message the catch block displays
detectFailureMessage(resp) ==
  LET m == IF resp.kind = "http_error"
           THEN IF resp.parsed /\ resp.detail # Null THEN Val(resp.detail)
                ELSE IF resp.parsed /\ resp.message # Null THEN Val(resp.message)
                ELSE "Disease detection request failed."
           ELSE resp.thrown
  IN IF m = "" THEN "Unable to run disease detection. Ensure the backend is running."
     ELSE m

cropVars == <<form, isLoading, error, step, previewData, previewPayload, inflight,
              nextReq, saved, locCache, homeVars, actions, confirmOks, cropAppends,
              resolverVars, resolverEnv, normalized>>

InitDisease == Boot("disease", StoreAbsent, Null, FullPlatform)

\* the file dialog or the camera delivers `selected` (Null: the dialog was
\* closed without a file)
handleFileChange(selected) ==
  /\ last' = "handleFileChange"
  /\ route = "disease"
  /\ LET after == processFile(selected, file) IN
     /\ file' = after.file
     /\ diseaseError' = after.error
     /\ result' = after.result
  /\ resultFile' = Null
  /\ UNCHANGED <<routeVars, cropVars, histStore, clock, appendLog, diseaseIsLoading,
                 detectInflight, nextDetect>>

\* something is dropped on the drop zone (Null: nothing that is a file)
handleDrop(dropped) ==
  /\ last' = "handleDrop"
  /\ route = "disease"
  /\ IF dropped # Null /\ IsImageType(Val(dropped).type)
     THEN LET after == processFile(dropped, file) IN
          /\ file' = after.file
          /\ diseaseError' = after.error
          /\ result' = after.result
          /\ resultFile' = Null
     ELSE /\ diseaseError' = "Please drop an image file (JPG, PNG, WebP)."
          /\ UNCHANGED <<file, result, resultFile>>
  /\ UNCHANGED <<routeVars, cropVars, histStore, clock, appendLog, diseaseIsLoading,
                 detectInflight, nextDetect>>

\* the button under a result
resetAll ==
  /\ last' = "resetAll"
  /\ route = "disease"
  /\ result # Null
  /\ file' = Null
  /\ diseaseError' = ""
  /\ result' = Null
  /\ resultFile' = Null
  /\ UNCHANGED <<routeVars, cropVars, histStore, clock, appendLog, diseaseIsLoading,
                 detectInflight, nextDetect>>

\* handleDetect up to its await; the button is disabled while isLoading and
\* without a staged file
handleDetect ==
  /\ last' = "handleDetect"
  /\ route = "disease"
  /\ ~diseaseIsLoading
  /\ file # Null
  /\ nextDetect <= MaxDetects
  /\ diseaseError' = ""
  /\ result' = Null
  /\ resultFile' = Null
  /\ diseaseIsLoading' = TRUE
  /\ detectInflight' = detectInflight \cup
                          {[id |-> nextDetect, file |-> Val(file), live |-> TRUE]}
  /\ nextDetect' = nextDetect + 1
  /\ UNCHANGED <<routeVars, cropVars, histStore, clock, appendLog, file>>

\* handleDetect after the await, a 2xx response with body data; the history
\* is written whether or not the view is still mounted
detectOk(r, data) ==
  /\ last' = "detectOk"
  /\ ~renderError
  /\ r \in detectInflight
  /\ detectInflight' = detectInflight \ {r}
  /\ IF Live(r)
     THEN /\ result' = Some(normalizeResult(data))
          /\ resultFile' = Some(r.file)
          /\ diseaseIsLoading' = FALSE
     ELSE UNCHANGED <<result, resultFile, diseaseIsLoading>>
  /\ histStore' = Persisted(histStore,
                            detectSaveHistory(histStore, detectSummary(data, r.file),
                                              clock))
  /\ clock' = clock + 1
  /\ appendLog' = IF Writable(histStore) /\ platform.storage = "ok"
                  THEN Append(appendLog,
                         HistoryEntry("disease", detectSummary(data, r.file), clock))
                  ELSE appendLog
  /\ UNCHANGED <<routeVars, cropVars, file, diseaseError, nextDetect>>

\* a failure path without the finally block
detectFail_staysBusy(r, resp) ==
  /\ last' = "detectFail"
  /\ ~renderError
  /\ r \in detectInflight
  /\ detectInflight' = detectInflight \ {r}
  /\ IF Live(r)
     THEN diseaseError' = detectFailureMessage(resp)
     ELSE UNCHANGED diseaseError
  /\ UNCHANGED <<routeVars, cropVars, histStore, clock, appendLog, file, result,
                 resultFile, nextDetect, diseaseIsLoading>>

\* handleDetect after the await, an outcome that throws
detectFail(r, resp) ==
  /\ last' = "detectFail"
  /\ ~renderError
  /\ r \in detectInflight
  /\ detectInflight' = detectInflight \ {r}
  /\ IF Live(r)
     THEN /\ diseaseError' = detectFailureMessage(resp)
          /\ diseaseIsLoading' = FALSE
     ELSE UNCHANGED <<diseaseError, diseaseIsLoading>>
  /\ UNCHANGED <<routeVars, cropVars, histStore, clock, appendLog, file, result,
                 resultFile, nextDetect>>

NextDisease ==
  \/ \E f \in Files \cup {Null} :
       handleFileChange(IF f = Null THEN Null ELSE Some(f))
  \/ \E f \in Files \cup {Null} :
       handleDrop(IF f = Null THEN Null ELSE Some(f))
  \/ resetAll
  \/ handleDetect
  \/ \E r \in detectInflight : \E data \in DetectBodies : detectOk(r, data)
  \/ \E r \in detectInflight : \E resp \in DetectFailures : detectFail(r, resp)

SpecDisease == InitDisease /\ [][NextDisease]_vars

---------------------------------------------------------------------------
(* The failure paths of the two requests of CropForm.jsx: every shape of a  *)
(* failed response, on the form's own handlers                              *)

\* error bodies: not JSON; JSON without detail; detail a string, empty or
\* not; detail a list of zero to two items, each with or without msg
ErrCases ==
  { ErrData(FALSE, "none", "", <<>>), ErrData(TRUE, "none", "", <<>>) }
  \cup { ErrData(TRUE, "string", s, <<>>) : s \in {"", "Location not found"} }
  \cup { ErrData(TRUE, "list", "", l) :
           l \in { <<>>, <<Some("a")>>, <<Null>>, <<Some("a"), Some("b")>>,
                   <<Some("a"), Null>>, <<Null, Null>> } }

\* a non-2xx response with each error body; a rejected fetch or a 2xx body
\* that is not JSON, with the message of the thrown error
FailureCases ==
  { Response("http_error", Null, e, "") : e \in ErrCases }
  \cup { Response("network_error", Null, NoErr, m) : m \in {"", "Failed to fetch"} }

NextFailure ==
  \/ \E value \in LocationInputs : handleChange("location", value)
  \/ handlePreview
  \/ \E r \in inflight :
       \E resp \in PreviewResponses(r.payload) \cup FailureCases : previewSettle(r, resp)
  \/ handleConfirm
  \/ \E r \in inflight : \E resp \in FailureCases : confirmFail(r, resp)
  \/ \E r \in inflight : \E resp \in ConfirmResponses : confirmOk(r, resp)
  \/ handleBackToForm

SpecFailure == Init /\ [][NextFailure]_vars

---------------------------------------------------------------------------
(* The history appends of the two workflows against a store that cannot be  *)
(* extended: a stored value that is not a JSON array, or a full quota       *)

\* the application is loaded on either page, with any stored value, in a
\* browser whose localStorage accepts writes or rejects them
InitPersist ==
  \E r \in {"crop", "disease"} : \E store \in InitialStores :
    \E st \in {"ok", "full"} :
      Boot(r, store, Null, [FullPlatform EXCEPT !.storage = st])

\* a photo within the size limit
LeafPhotos == { f \in Files : processFile(Some(f), Null).file # Null }

\* a detection with both confidence fields, and one with a label only
PersistBodies ==
  { DetectBody(Null, Null, Some("leaf_spot"), c, Some(87000), Null, Null, Null, Null) :
      c \in {Null, Some(870)} }

NextPersist ==
  \/ \E value \in TypedLocations : handleChange("location", value)
  \/ handlePreview
  \/ \E r \in inflight : \E resp \in PreviewResponses(r.payload) : previewSettle(r, resp)
  \/ handleConfirm
  \/ \E r \in inflight : \E resp \in Failures : confirmFail(r, resp)
  \/ \E r \in inflight : \E resp \in ConfirmResponses : confirmOk(r, resp)
  \/ \E f \in LeafPhotos : handleFileChange(Some(f))
  \/ handleDetect
  \/ \E r \in detectInflight : \E data \in PersistBodies : detectOk(r, data)
  \/ \E r \in detectInflight : \E resp \in DetectFailures : detectFail(r, resp)

SpecPersist == InitPersist /\ [][NextPersist]_vars

---------------------------------------------------------------------------
(* The busy flags: every operation that raises one (preview, confirm, GPS,  *)
(* detect-disease) together with its settlement, under the assumption that  *)
(* every outstanding operation settles: fetch resolves or rejects, and      *)
(* getCurrentPosition calls back within its 8 s timeout                     *)

\* either page, in a browser with or without geolocation
InitSettle ==
  \E r \in {"crop", "disease"} : \E geo \in BOOLEAN :
    Boot(r, StoreAbsent, Null, [FullPlatform EXCEPT !.geolocation = geo])

\* the responses of the crop requests
cropSettles ==
  \E r \in inflight :
    \/ \E resp \in PreviewResponses(r.payload) : previewSettle(r, resp)
    \/ \E resp \in Failures : confirmFail(r, resp)
    \/ \E resp \in ConfirmResponses : confirmOk(r, resp)

\* the callbacks of getCurrentPosition
positionSettles ==
  \E r \in locInflight :
    \/ \E point \in Points : gpsPosition(r, point)
    \/ gpsFailed(r)

\* the response of the reverse-geocode fetch
geocodeSettles ==
  \E r \in locInflight : \E res \in GeoResponses : gpsResolved(r, res)

\* the response of the detect-disease request
detectSettles ==
  \E r \in detectInflight :
    \/ \E data \in PersistBodies : detectOk(r, data)
    \/ \E resp \in DetectFailures : detectFail(r, resp)

NextSettle ==
  \/ \E value \in TypedLocations : handleChange("location", value)
  \/ handlePreview
  \/ handleConfirm
  \/ handleBackToForm
  \/ cropSettles
  \/ handleUseGps
  \/ positionSettles
  \/ geocodeSettles
  \/ \E f \in LeafPhotos : handleFileChange(Some(f))
  \/ handleDetect
  \/ detectSettles

SpecSettle ==
  /\ InitSettle
  /\ [][NextSettle]_vars
  /\ WF_vars(cropSettles)
  /\ WF_vars(positionSettles)
  /\ WF_vars(geocodeSettles)
  /\ WF_vars(detectSettles)

---------------------------------------------------------------------------
(* The two workflows on one history store: a confirm request and a detect   *)
(* request issued from their pages, the user moving between the pages       *)
(* while they are outstanding, and their responses arriving in any order    *)

\* 19 entries of earlier sessions
NineteenEntries ==
  [ i \in 1..19 |->
      HistoryEntry("crop", [crop |-> "maize", location |-> <<"C">>, profit |-> Some(300)],
                   i - 20) ]

InitShared ==
  \E store \in {StoreAbsent, StoreArray(NineteenEntries)} : Loaded(store)

\* one photo, and for each request a success or a rejected fetch
SharedPhotos == { f \in LeafPhotos : f.name = "leaf.jpg" }
SharedFailures == { resp \in Failures : resp.kind = "network_error" }
SharedDetectFailures == { resp \in DetectFailures : resp.kind = "network_error" }

NextShared ==
  \/ \E value \in TypedLocations : handleChange("location", value)
  \/ handlePreview
  \/ \E r \in inflight :
       \E resp \in { x \in PreviewResponses(r.payload) : x.kind # "http_error" } :
         previewSettle(r, resp)
  \/ handleConfirm
  \/ \E r \in inflight : \E resp \in SharedFailures : confirmFail(r, resp)
  \/ \E r \in inflight : \E resp \in ConfirmResponses : confirmOk(r, resp)
  \/ OpenCropForm
  \/ OpenDisease
  \/ OpenHome
  \/ clearHistory
  \/ \E f \in SharedPhotos : handleFileChange(Some(f))
  \/ handleDetect
  \/ \E r \in detectInflight : \E data \in PersistBodies : detectOk(r, data)
  \/ \E r \in detectInflight : \E resp \in SharedDetectFailures : detectFail(r, resp)

SpecShared == InitShared /\ [][NextShared]_vars

---------------------------------------------------------------------------
(* Properties of the crop advisory workflow, checked under Spec *)

\* C1: a confirm request is never issued without a held PreviewSnapshot:
\* whenever step is "confirm" a snapshot is held, and every outstanding
\* confirm request was issued with a snapshot, which its form still holds in
\* the confirm step for as long as that form is mounted.
C1_ConfirmNeedsPreview ==
  /\ step = "confirm" => previewData # Null
  /\ \A r \in inflight :
       r.kind = "confirm" =>
         /\ r.previewData # Null
         /\ Live(r) => step = "confirm" /\ previewData = r.previewData
C1_Witness ==
  \E r \in inflight : r.kind = "confirm" /\ Live(r) /\ last = "handleConfirm"

\* C2: a preview action on an empty or whitespace-only location issues no
\* request, sets an error message, stays in the form step with no snapshot
\* and does not raise the loading flag.
C2_EmptyLocationRejected ==
  [][ (handlePreview /\ Trim(form.location) = <<>>) =>
        /\ inflight' = inflight
        /\ nextReq' = nextReq
        /\ error' # ""
        /\ step' = "form"
        /\ previewData' = Null
        /\ ~isLoading' ]_vars
C2_Witness ==
  /\ last = "handlePreview"
  /\ form.location = <<" ">>
  /\ error = "Please enter a location."
  /\ ~isLoading

\* C3 as stated: one request per action, and never more than one preview or
\* confirm request outstanding.
C3_OneOutstanding ==
  /\ nextReq - 1 <= actions
  /\ Cardinality(inflight) <= 1

\* C3 amended: one request per action, and never more than one outstanding
\* request of the mounted form, which has its controls disabled (isLoading)
\* for as long as that request is outstanding; requests of a form that has
\* been left are not cancelled and may be outstanding next to it.
C3_OneOutstandingPerForm ==
  /\ nextReq - 1 <= actions
  /\ Cardinality({r \in inflight : Live(r)}) <= 1
  /\ (\E r \in inflight : Live(r)) <=> isLoading
C3_Witness ==
  /\ \E r \in inflight : Live(r)
  /\ \E r \in inflight : ~Live(r)
  /\ isLoading

\* C4: a failed confirm request of the mounted form leaves the workflow in
\* the confirm step with the snapshot it held, sets an error message, does
\* not navigate, and leaves the confirm action available.
C4_ConfirmFailureKeepsSnapshot ==
  [][ (\E r \in inflight : \E resp \in Failures : confirmFail(r, resp) /\ Live(r)) =>
        /\ step' = "confirm"
        /\ previewData # Null
        /\ previewData' = previewData
        /\ error' # ""
        /\ route' = "crop"
        /\ locState' = locState
        /\ ConfirmShown'
        /\ ~isLoading' ]_vars
C4_Witness ==
  /\ last = "confirmFail"
  /\ ConfirmShown
  /\ error = "field required; bad value"
  /\ ~isLoading

\* C5: the back action sets the step to "form", discards the snapshot,
\* clears the error and leaves every form field as it was.
C5_BackKeepsForm ==
  [][ handleBackToForm =>
        /\ step' = "form"
        /\ previewData' = Null
        /\ error' = ""
        /\ form' = form ]_vars
C5_Witness ==
  /\ last = "handleBackToForm"
  /\ step = "form"
  /\ previewData = Null
  /\ form.location = <<" ", "B">>
  /\ form.land_size = <<"2">>

\* C6: the payload a confirm request carries equals the payload of the
\* preview request that produced the snapshot the form holds.
C6_ConfirmPayloadIsPreviewPayload ==
  \A r \in inflight :
    (r.kind = "confirm" /\ Live(r)) => Some(r.payload) = previewPayload

\* C7: the history store has received exactly one "crop" entry for every
\* confirm request that succeeded.
C7_OneEntryPerConfirm == cropAppends = confirmOks

---------------------------------------------------------------------------
(* Properties of the history store, checked under SpecHistory *)

\* C8: whatever the two workflows append and the home view clears, a stored
\* history list never holds more than 20 entries.
C8_AtMostTwenty ==
  histStore.kind = "array" => Len(histStore.items) <= 20
C8_Witness ==
  /\ histStore.kind = "array"
  /\ Len(histStore.items) = 20
  /\ Len(appendLog) > 20
  /\ \E i \in 1..20 : histStore.items[i].type = "disease"
  /\ \E i \in 1..20 : histStore.items[i].type = "crop"

\* C9: a stored list is the min(k, 20) entries appended last, newest first,
\* where k counts the entries appended since the store was last empty: the
\* entry at index i is the i-th most recent append.
C9_NewestFirst ==
  /\ histStore.kind \in {"absent", "empty"} => appendLog = <<>>
  /\ histStore.kind = "array" =>
       LET n == Len(appendLog) IN
       /\ Len(histStore.items) = IF n < 20 THEN n ELSE 20
       /\ \A i \in 1..Len(histStore.items) : histStore.items[i] = appendLog[n + 1 - i]
C9_Witness ==
  /\ last = "detectSaved"
  /\ Len(appendLog) = 21
  /\ histStore.items[1].type = "disease"
  /\ histStore.items[20] = appendLog[2]

\* C10: right after the home view has read the history, nothing has thrown
\* and the list it holds is empty when the stored value is absent, not
\* parsable or not a list, and the 6 newest entries at most otherwise.
C10_ReadRecentNeverFails ==
  (route = "home" /\ last = "OpenHome") =>
    /\ ~renderError
    /\ homeHistory.kind = "array"
    /\ homeHistory.items =
         IF histStore.kind = "array" THEN Slice0(histStore.items, 6) ELSE <<>>

---------------------------------------------------------------------------
(* Properties of the location resolver, checked under SpecLocation *)

\* C11: after a location has been given to the mounted form by any of the
\* four modalities (typed text that is not blank, a voice transcript, a GPS
\* fix, a map pick), the location cache holds that location's name, and for
\* a GPS fix or a map pick its coordinates too.
C11_CacheHoldsLastResolution ==
  [][ /\ ( \/ \E value \in TypedLocations :
               handleChange("location", value) /\ Trim(value) # <<>>
           \/ \E r \in locInflight : \E transcript \in Transcripts :
               voiceResult(r, transcript) /\ Live(r) )
         => /\ locCache' # Null
            /\ Val(locCache').kind = "object"
            /\ Val(locCache').name = form'.location
      /\ \A r \in locInflight : \A res \in GeoResponses :
           ((gpsResolved(r, res) \/ mapResolved(r, res)) /\ Live(r))
           => /\ locCache' # Null
              /\ Val(locCache').kind = "object"
              /\ Val(locCache').name = form'.location
              /\ Val(locCache').coords = r.coords ]_vars

\* C12: right after the form has been opened, a cached name is the form's
\* location and the cached coordinates are the held coordinates; with a
\* cache that is absent, not parsable or without a name the location is
\* empty, and in every case no error is shown and nothing has thrown.
C12_CachePrefill ==
  (route = "crop" /\ last \in {"init", "OpenCropForm"}) =>
    /\ error = ""
    /\ ~renderError
    /\ IF locCache # Null /\ Val(locCache).kind = "object" /\ Val(locCache).name # <<>>
       THEN /\ form.location = Val(locCache).name
            /\ mapCoords = Val(locCache).coords
       ELSE form.location = <<>>
C12_Witness ==
  /\ route = "crop"
  /\ last = "OpenCropForm"
  /\ locCache # Null
  /\ form.location = <<"P", "u", "n", "e">>
  /\ mapCoords = Some(Coords(-4, -7385678))

\* C13: a GPS action in a browser without geolocation, and a position
\* request that fails, set an error message; they and the start of a GPS
\* action leave the form's location, the held coordinates and the location
\* cache as they were.
C13_GpsFailureKeepsLocation ==
  [][ /\ handleUseGps =>
           /\ form'.location = form.location
           /\ mapCoords' = mapCoords
           /\ locCache' = locCache
           /\ ~platform.geolocation => (error' # "" /\ locInflight' = locInflight)
      /\ (\E r \in locInflight : gpsFailed(r) /\ Live(r)) =>
           /\ error' # ""
           /\ form'.location = form.location
           /\ mapCoords' = mapCoords
           /\ locCache' = locCache ]_vars
C13_Witness ==
  /\ last = "gpsFailed"
  /\ error = "Unable to fetch GPS location. Please enter location manually."
  /\ ~usingGps
  /\ form.location = <<"P", "u", "n", "e">>
  /\ mapCoords # Null
  /\ locCache # Null

\* C14: a GPS fix and a map pick at a point both yield the server's location
\* when reverse-geocoding answers 2xx with a non-empty one, and otherwise the
\* name "GPS: <lat>, <lng>" with four decimals each; the name is never empty.
\* The name goes to the cache, and to the form when it is still mounted.
C14_ResolvedName ==
  [][ \A r \in locInflight \ locInflight' : \A res \in GeoResponses :
        (IF r.kind = "gps" THEN gpsResolved(r, res) ELSE mapResolved(r, res)) =>
          LET fallback ==
                IF Val(r.coords) = Coords(1852043, 7385678)
                THEN << "G", "P", "S", ":", " ", "1", "8", ".", "5", "2", "0", "4",
                        ",", " ", "7", "3", ".", "8", "5", "6", "8" >>
                ELSE << "G", "P", "S", ":", " ", "-", "0", ".", "0", "0", "0", "0",
                        ",", " ", "-", "7", "3", ".", "8", "5", "6", "8" >>
              expected ==
                IF res.kind = "ok" /\ res.body = "object" /\ res.location # Null
                   /\ Val(res.location) # <<>>
                THEN Val(res.location) ELSE fallback
          IN /\ expected # <<>>
             /\ Val(locCache').name = expected
             /\ Val(locCache').coords = r.coords
             /\ Live(r) => form'.location = expected ]_vars
C14_Witness ==
  /\ last = "mapResolved"
  /\ route = "crop"
  /\ form.location = << "G", "P", "S", ":", " ", "-", "0", ".", "0", "0", "0", "0",
                        ",", " ", "-", "7", "3", ".", "8", "5", "6", "8" >>
  /\ gpsMessage = form.location
  /\ Val(locCache).name = form.location

---------------------------------------------------------------------------
(* Properties of the payload normalizer, checked under SpecPayload *)

\* C15: the payload has temperature 18/25/32 for Cool/Moderate/Hot, humidity
\* 30/55/80 and rainfall 400/750/1200 for Low/Medium/High, and null for a
\* selection left empty, each whatever the other fields hold; the form
\* {Pune, Hot, no humidity, Low rainfall, no soil input} gives
\* {Pune, 32, null, 400, manual_soil null}.
C15_CategoryMidpoints ==
  normalized # Null =>
    LET p == Val(normalized) IN
    /\ p.temperature = CASE form.temperature = "Cool" -> Some(18)
                          [] form.temperature = "Moderate" -> Some(25)
                          [] form.temperature = "Hot" -> Some(32)
                          [] form.temperature = "" -> Null
    /\ p.humidity = CASE form.humidity = "Low" -> Some(30)
                       [] form.humidity = "Medium" -> Some(55)
                       [] form.humidity = "High" -> Some(80)
                       [] form.humidity = "" -> Null
    /\ p.rainfall = CASE form.rainfall = "Low" -> Some(400)
                       [] form.rainfall = "Medium" -> Some(750)
                       [] form.rainfall = "High" -> Some(1200)
                       [] form.rainfall = "" -> Null
    /\ ( form = [INITIAL_FORM EXCEPT !.location = <<"P", "u", "n", "e">>,
                                     !.temperature = "Hot", !.rainfall = "Low"] )
       => /\ p.location = <<"P", "u", "n", "e">>
          /\ p.temperature = Some(32)
          /\ p.humidity = Null
          /\ p.rainfall = Some(400)
          /\ p.manual_soil = Null
C15_Witness ==
  /\ last = "buildPayload"
  /\ form = [INITIAL_FORM EXCEPT !.location = <<"P", "u", "n", "e">>,
                                 !.temperature = "Hot", !.rainfall = "Low"]
  /\ Val(normalized).temperature = Some(32)
  /\ Val(normalized).humidity = Null
  /\ Val(normalized).rainfall = Some(400)
  /\ Val(normalized).manual_soil = Null

\* C16: manual_soil is null exactly when N, P, K and ph are all empty;
\* otherwise it has exactly the fields N, P, K, ph, each the number entered,
\* with 0 for an empty N, P or K and 7 for an empty ph.
C16_ManualSoilAllOrNothing ==
  normalized # Null =>
    LET ms == Val(normalized).manual_soil
        entered(text, default) ==
          CASE text = <<>> -> default
            [] text = <<"0">> -> 0
            [] text = <<"6">> -> 6
            [] text = <<"4", "2">> -> 42
    IN /\ (ms = Null) <=>
            (form.N = <<>> /\ form.P = <<>> /\ form.K = <<>> /\ form.ph = <<>>)
       /\ ms # Null =>
            /\ DOMAIN Val(ms) = {"N", "P", "K", "ph"}
            /\ Val(ms).N = entered(form.N, 0)
            /\ Val(ms).P = entered(form.P, 0)
            /\ Val(ms).K = entered(form.K, 0)
            /\ Val(ms).ph = entered(form.ph, 7)
C16_Witness ==
  /\ last = "buildPayload"
  /\ form.N = <<"0">>
  /\ form.P = <<>>
  /\ form.K = <<"4", "2">>
  /\ form.ph = <<>>
  /\ Val(normalized).manual_soil = Some([N |-> 0, P |-> 0, K |-> 42, ph |-> 7])

---------------------------------------------------------------------------
(* Properties of the disease workflow, checked under SpecDisease *)

C18_ResultOfStagedFile ==
  result # Null => resultFile = file

\* C19: a successful detection shows the first present of disease_name,
\* disease, label as the disease name, the first present of confidence,
\* confidence_percent as the confidence and the first present of
\* treatment_advice, treatment, recommendation, advice as the treatment; a
\* response with only label and confidence_percent shows those two values.
C19_FirstPresentWins ==
  [][ \A r \in detectInflight : \A data \in DetectBodies :
        detectOk(r, data) =>
          LET shown == Val(result') IN
          /\ data.disease_name # Null => shown.diseaseName = Val(data.disease_name)
          /\ (data.disease_name = Null /\ data.disease # Null)
               => shown.diseaseName = Val(data.disease)
          /\ (data.disease_name = Null /\ data.disease = Null /\ data.label # Null)
               => shown.diseaseName = Val(data.label)
          /\ data.confidence # Null => shown.confidence = data.confidence
          /\ (data.confidence = Null /\ data.confidence_percent # Null)
               => shown.confidence = data.confidence_percent
          /\ data.treatment_advice # Null => shown.treatment = data.treatment_advice
          /\ (data.treatment_advice = Null /\ data.treatment # Null)
               => shown.treatment = data.treatment
          /\ (data.treatment_advice = Null /\ data.treatment = Null
                /\ data.recommendation # Null)
               => shown.treatment = data.recommendation
          /\ (data.treatment_advice = Null /\ data.treatment = Null
                /\ data.recommendation = Null /\ data.advice # Null)
               => shown.treatment = data.advice
          /\ data = DetectBody(Null, Null, Some("leaf_spot"), Null, Some(87000),
                               Null, Null, Null, Null)
               => (shown.diseaseName = "leaf_spot" /\ shown.confidence = Some(87000)) ]_vars
C19_Witness ==
  /\ last = "detectOk"
  /\ result = Some([diseaseName |-> "leaf_spot", confidence |-> Some(87000),
                     treatment |-> Null])

\* C20: a successful detection puts one new entry at the head of the stored
\* history, of type "disease", with the disease name and the confidence of
\* the result it shows and the name of the file it submitted, in front of
\* the entries stored before; a failed detection leaves the store as it was.
C20_DetectionRecorded ==
  [][ /\ \A r \in detectInflight : \A data \in DetectBodies :
           detectOk(r, data) =>
             /\ histStore'.kind = "array"
             /\ histStore'.items # <<>>
             /\ Tail(histStore'.items) = Slice0(ParseHistory(histStore).value.items, 19)
             /\ Head(histStore'.items).type = "disease"
             /\ Head(histStore'.items).summary.disease = Val(result').diseaseName
             /\ Head(histStore'.items).summary.confidence = Val(result').confidence
             /\ Head(histStore'.items).summary.fileName = r.file.name
      /\ \A r \in detectInflight : \A resp \in DetectFailures :
           detectFail(r, resp) => histStore' = histStore ]_vars

\* C21: for every displayed result that holds a numeric confidence, the
\* low-confidence warning is rendered exactly when the confidence, scaled from
\* 0-1 to 0-100, is below 40, a confidence of 0 included.
C21_LowConfidenceNotice ==
  (result # Null /\ Val(result).confidence # Null)
    => (LowConfidenceShown(result)
          <=> Val(Val(result).confidence) * 100 < 40000)

\* C22: on the crop-advisory page at most one asynchronous operation of the
\* mounted form (preview, confirm, geolocation fix, reverse geocoding, speech
\* recognition) is outstanding at any time.
C22_OneOperationInFlight ==
  Cardinality({r \in inflight : Live(r)})
    + Cardinality({r \in locInflight : Live(r)}) <= 1

---------------------------------------------------------------------------
(* Properties of the failure paths, checked under SpecFailure *)

\* C23: a failed preview or confirm request ends in a displayed message: the
\* server's detail verbatim when it is a non-empty string, the msg of all the
\* items of the detail joined by "; " when it is a list, the request's
\* fallback message when the body has no detail or is not JSON, and for a
\* rejected fetch the thrown error's message or a generic message.
C23_FailureMessageShown ==
  [][ \A r \in inflight \ inflight' : \A resp \in FailureCases :
        LET failed == IF r.kind = "preview" THEN previewSettle(r, resp)
                      ELSE confirmFail(r, resp)
            fallback == IF r.kind = "preview" THEN "Preview failed."
                        ELSE "Advisory request failed."
            e == resp.errData
            msg(i) == IF e.list[i] = Null THEN "" ELSE Val(e.list[i])
            joined == IF Len(e.list) = 0 THEN ""
                      ELSE IF Len(e.list) = 1 THEN msg(1)
                      ELSE msg(1) \o "; " \o msg(2)
        IN (failed /\ Live(r)) =>
             /\ error' # ""
             /\ ~isLoading'
             /\ (resp.kind = "http_error" /\ e.parsed /\ e.detail = "string"
                   /\ e.str # "") => error' = e.str
             /\ (resp.kind = "http_error" /\ e.parsed /\ e.detail = "list"
                   /\ joined # "") => error' = joined
             /\ (resp.kind = "http_error" /\ (~e.parsed \/ e.detail = "none"))
                  => error' = fallback
             /\ (resp.kind = "network_error" /\ resp.message # "")
                  => error' = resp.message ]_vars

\* a confirm request has failed with a list of two items and the form shows
\* both messages
C23_Witness ==
  last = "confirmFail" /\ error = "a; b" /\ step = "confirm"

---------------------------------------------------------------------------
(* Properties of the appends against a failing store, checked under         *)
(* SpecPersist                                                              *)

\* C24: a history append that meets a persistence failure (the stored value
\* cannot be parsed or is not a list, or the write is rejected) shows no
\* error, leaves the stored value exactly as it was, and leaves the outcome
\* of the workflow that attempted it as it is without the failure: the
\* results view opens with the advisory, the detection result is displayed.
C24_FailedAppendIsSilent ==
  [][ LET blocked == platform.storage # "ok" \/ ~Writable(histStore) IN
      /\ \A r \in inflight : \A resp \in ConfirmResponses :
           (blocked /\ confirmOk(r, resp)) =>
             /\ histStore' = histStore
             /\ ~renderError'
             /\ error' = ""
             /\ route' = "results"
             /\ locState' =
                  Some([ data |-> ResultPayload(Val(resp.data), r.payload, r.land_size),
                         inputSummary |-> r.previewData ])
      /\ \A r \in detectInflight : \A data \in PersistBodies :
           (blocked /\ detectOk(r, data)) =>
             /\ histStore' = histStore
             /\ ~renderError'
             /\ diseaseError' = ""
             /\ ~diseaseIsLoading'
             /\ result' = Some(normalizeResult(data)) ]_vars

\* the results view has opened over a full store that still holds its
\* entries
C24_Witness ==
  /\ last = "confirmOk"
  /\ route = "results"
  /\ locState # Null
  /\ platform.storage = "full"
  /\ histStore = StoreArray(OldEntries)

---------------------------------------------------------------------------
(* Properties of the busy flags, checked under SpecSettle *)

\* C25: no step is left unresolved. When the outstanding preview, confirm,
\* GPS or detect-disease operation of a mounted view settles, the busy flag
\* it raised (isLoading, usingGps) is false again and either the step has
\* advanced (the confirm view, the results view, the resolved location, the
\* displayed detection) or an error is displayed; and, every outstanding
\* operation settling eventually, every raised busy flag is eventually
\* cleared.
C25_BusyFlagsClear ==
  /\ [][ /\ \A r \in inflight \ inflight' :
              (Live(r) /\ last' \in {"previewSettle", "confirmFail", "confirmOk"}) =>
                /\ ~isLoading'
                /\ \/ r.kind = "preview" /\ step' = "confirm" /\ previewData' # Null
                   \/ r.kind = "confirm" /\ route' = "results" /\ locState' # Null
                   \/ error' # ""
         /\ \A r \in locInflight \ locInflight' :
              (Live(r) /\ r.kind = "gps" /\ last' \in {"gpsFailed", "gpsResolved"}) =>
                /\ ~usingGps'
                /\ \/ last' = "gpsResolved" /\ form'.location # <<>>
                   \/ error' # ""
         /\ \A r \in detectInflight \ detectInflight' :
              /\ ~diseaseIsLoading'
              /\ result' # Null \/ diseaseError' # "" ]_vars
  /\ isLoading ~> ~isLoading
  /\ usingGps ~> ~usingGps
  /\ diseaseIsLoading ~> ~diseaseIsLoading

\* a GPS fix has been resolved while a preview was outstanding, and the
\* preview is still outstanding with its flag raised
C25_Witness ==
  /\ last = "gpsResolved"
  /\ ~usingGps
  /\ isLoading
  /\ \E r \in inflight : r.kind = "preview" /\ Live(r)

---------------------------------------------------------------------------
(* Further properties of the location resolver, checked under SpecLocation *)

\* C26: coordinates are held only for a name that a GPS or map-pick
\* resolution of those coordinates produced: once typing or a voice
\* transcript has set the location name, the form holds no coordinates.
C26_TypedNameHasNoCoords ==
  [][ /\ (\E value \in TypedLocations : handleChange("location", value))
           => mapCoords' = Null
      /\ \A r \in locInflight \ locInflight' : \A transcript \in Transcripts :
           (voiceResult(r, transcript) /\ Live(r)) => mapCoords' = Null ]_vars

\* C27: voice capture is not re-entered: from the start of a recognition
\* until it ends or errors no second one is started, so the mounted form has
\* at most one recognition outstanding, and the listening flag is false when
\* it has none.
C27_OneRecognition ==
  LET active == {r \in locInflight : r.kind = "voice" /\ Live(r)} IN
  /\ Cardinality(active) <= 1
  /\ (route = "crop" /\ active = {}) => ~isListening

---------------------------------------------------------------------------
(* Properties of the two workflows on one store, checked under SpecShared *)

\* C28: appends by the crop workflow and by the disease workflow never lose
\* an update, however their requests, responses and the navigation between
\* the pages interleave: every entry appended since the last clear is in the
\* stored list, unless 20 or more entries were appended after it.
C28_NoLostAppend ==
  /\ histStore.kind # "array" => appendLog = <<>>
  /\ histStore.kind = "array" =>
       \A k \in 1..Len(appendLog) :
         Len(appendLog) - k < 20 =>
           \E j \in 1..Len(histStore.items) : histStore.items[j] = appendLog[k]

\* a detection answered after the results view had replaced its page: its
\* entry sits on top of the crop entry, and the oldest entry has been evicted
C28_Witness ==
  /\ last = "detectOk"
  /\ route = "results"
  /\ histStore.kind = "array"
  /\ Len(histStore.items) = 20
  /\ Len(appendLog) = 21
  /\ histStore.items[1].type = "disease"
  /\ histStore.items[2].type = "crop"
  /\ histStore.items[2].date >= 0

---------------------------------------------------------------------------
(* Concurrent resolutions, checked under SpecLocation *)

\* C29: when the last outstanding map pick or GPS fix of the mounted form is
\* resolved, the name in the form, the coordinates the form holds and the
\* cached pair belong to one resolution, the most recently initiated one:
\* the cache holds exactly the form's name with the form's coordinates, and
\* a late response for an older pick has not replaced a newer one.
C29_LatestResolutionWins ==
  [][ \A r \in locInflight \ locInflight' :
        ( /\ Live(r)
          /\ r.stage = "geocode"
          /\ ~\E q \in locInflight' : q.id = r.id
          /\ ~\E q \in locInflight' : Live(q) /\ q.kind \in {"gps", "map"} )
        => locCache' = Some(CacheText("object", form'.location, mapCoords')) ]_vars

---------------------------------------------------------------------------
(* The request bodies of the crop advisory workflow, checked under Spec *)

\* C30: every preview request and every confirm request carries a location
\* that is not empty: no sequence of edits and actions sends a request with
\* an empty location.
C30_LocationNeverEmpty ==
  \A r \in inflight : r.payload.location # <<>>

====
